---- MODULE Spec2Model ----
(***************************************************************************)
(* A model of cow-vec: CowVec<T>, a vector whose values live in an         *)
(* append-only arena shared (through Arc) by all clones, each instance     *)
(* holding its own list of pointers into the arena.                        *)
(*                                                                         *)
(* Pointers are modelled as pairs <<arena id, slot number>>; the arena     *)
(* behind id a is the sequence heap[a], slot k holding heap[a][k].         *)
(* Indices handed to the operations are 0-based, as in the source;         *)
(* sequences of the model are 1-based.                                     *)
(*                                                                         *)
(* The sharing introspection (is_structure_shared, is_storage_shared) and  *)
(* the reference-counted Structure behind it are exercised by the tests    *)
(* but not defined in cow_vec.rs; they are modelled from the design        *)
(* document: `structure` holds, for each Structure object, the set of      *)
(* instances that reference it.                                            *)
(***************************************************************************)
EXTENDS Integers, Sequences, FiniteSets, TLC

\* Bounds of the model: the instances that can exist at once, and the
\* instances plus allocated values that can exist at once.
MaxInst == 3
MaxMemory == 4

Inst == 1..MaxInst
ArenaId == 1..MaxInst
Values == {1, 2}
Iters == UNION {[1..k -> Values] : k \in 0..2}

VARIABLES
    live,       \* the CowVec instances that exist
    arena,      \* arena[i]: CowVec.arena, the arena instance i references
    items,      \* items[i]: CowVec.items, the pointer list of instance i
    structure,  \* the Structure objects, each as the set of its owners
    heap,       \* heap[a]: CowArena.arena, the values allocated in arena a
    last,       \* the last call: its name, receiver and outcome
    thread,     \* thread[t]: where thread t is in the call it is running
    mutex       \* mutex[a]: CowArena.arena's Mutex, its holder or 0 if free

vars == <<live, arena, items, structure, heap, last, thread, mutex>>

----------------------------------------------------------------------------
Min(S) == CHOOSE x \in S : \A y \in S : x <= y

\* The values allocated in the arenas 1..n.
RECURSIVE SumLen(_, _)
SumLen(h, n) == IF n = 0 THEN 0 ELSE Len(h[n]) + SumLen(h, n - 1)

\* The instances and the values held at once.
MemoryUsed == Cardinality(live) + SumLen(heap, MaxInst)

\* Room for k more instances or values.
Room(k) == MemoryUsed + k <= MaxMemory

----------------------------------------------------------------------------
\* CowArena

\* CowArena::alloc: the arena after appending value (the arena never moves
\* or removes a value).
alloc(h, a, value) == [h EXCEPT ![a] = Append(@, value)]

\* The pointer CowArena::alloc returns: the slot just appended.
allocPtr(h, a) == <<a, Len(h[a]) + 1>>

\* CowArena::len: the number of allocations ever made in arena a.
arenaLen(h, a) == Len(h[a])

\* unsafe { &*ptr }: the value a pointer refers to.
deref(h, ptr) == h[ptr[1]][ptr[2]]

\* Allocating the values of vs in order: the map(|item| arena.alloc(item))
\* of splice, from and clone_with_max_capacity, the pushes of extend.
RECURSIVE allocAll(_, _, _)
allocAll(h, a, vs) ==
    IF vs = <<>> THEN h
    ELSE allocAll(alloc(h, a, Head(vs)), a, Tail(vs))

\* The pointers those allocations return.
allocPtrs(h, a, vs) == [k \in 1..Len(vs) |-> <<a, Len(h[a]) + k>>]

----------------------------------------------------------------------------
\* The last call: the method, its receiver and whether it returned or
\* panicked.
Call(op, self, outcome) == [op |-> op, self |-> self, outcome |-> outcome]

----------------------------------------------------------------------------
\* Reading an instance.

\* CowVec::len
len(i) == Len(items[i])

\* CowVec::to_vec: the values behind a pointer list, in order.
to_vec(h, its) == [k \in 1..Len(its) |-> deref(h, its[k])]

\* The values of instance i.
Content(i) == to_vec(heap, items[i])

\* Option<&T>: Some(v) and None.
Some(v) == <<v>>
None == <<>>

\* A get that answers an index past the end with the last element.
get_returns_clamped(self, index) ==
    IF index < Len(items[self])
    THEN Some(deref(heap, items[self][index + 1]))
    ELSE IF Len(items[self]) = 0 THEN None
         ELSE Some(deref(heap, items[self][Len(items[self])]))

\* What CowVec::get returns: self.items.get(index) mapped through the
\* pointer.
get_returns(self, index) ==
    IF index < Len(items[self])
    THEN Some(deref(heap, items[self][index + 1]))
    ELSE None

\* What Index::index returns when it returns: get(index).expect(..).
index_returns(self, index) == get_returns(self, index)[1]

\* CowVec::as_slice: the pointer list read as a slice of references.
as_slice(self) == [k \in 1..Len(items[self]) |-> deref(heap, items[self][k])]

\* What CowVecIter::next returns at a position: the item there, or None at
\* the end.
next_returns(self, position) ==
    IF position < len(self) THEN get_returns(self, position) ELSE None

\* A next that advances its position even when it has nothing to yield.
next_position_always(self, position) == position + 1

\* The position CowVecIter::next leaves: one further when it yielded an
\* item, unchanged at the end.
next_position(self, position) ==
    IF position < len(self) THEN position + 1 ELSE position

\* CowVecIter::size_hint: the remaining count as lower and upper bound.
size_hint(self, position) ==
    <<len(self) - position, Some(len(self) - position)>>

\* CowVecIter: the items next() yields from position on, until it yields
\* None.
RECURSIVE collect(_, _)
collect(self, position) ==
    IF next_returns(self, position) = None
    THEN <<>>
    ELSE next_returns(self, position)
            \o collect(self, next_position(self, position))

\* The items of CowVec::iter, run to its end.
iter_items(self) == collect(self, 0)

\* The owners of the Structure instance i references.
owners(i) == CHOOSE b \in structure : i \in b

\* is_structure_shared: at least two live instances reference the Structure.
is_structure_shared(i) == Cardinality(owners(i)) >= 2

\* is_storage_shared: at least two live instances reference the Arena.
is_storage_shared(i) == Cardinality({j \in live : arena[j] = arena[i]}) >= 2

----------------------------------------------------------------------------
\* Fresh objects.
FreeInst == Min(Inst \ live)

\* Arc::new(CowArena::..): an arena no live instance references.
FreshArena == Min(ArenaId \ {arena[i] : i \in live})

\* The Structures once self has let go of its own.
Detach(self) == {b \ {self} : b \in structure} \ {{}}

\* A mutation that detaches every owner of the Structure, not self alone.
PrivatizeAll(self) ==
    (structure \ {owners(self)}) \cup {{j} : j \in owners(self)}

\* A mutation that edits the shared Structure in place.
PrivatizeNone(self) == structure

\* Copy-on-write of the Structure: a shared Structure is copied and the
\* copy attached to self alone; a private one is kept.
Privatize(self) == Detach(self) \cup {{self}}

\* A clone n of self references the Structure of self.
Attach(n, self) ==
    (structure \ {owners(self)}) \cup {owners(self) \cup {n}}

----------------------------------------------------------------------------
\* Vec<*const T>: the operations of the pointer list (0-based indices).

\* Vec::insert(index, x), index <= len.
VecInsert(s, index, x) ==
    SubSeq(s, 1, index) \o <<x>> \o SubSeq(s, index + 1, Len(s))

\* Vec::remove(index), index < len.
VecRemove(s, index) == SubSeq(s, 1, index) \o SubSeq(s, index + 2, Len(s))

\* slice::swap(a, b), a < len and b < len.
VecSwap(s, a, b) == [s EXCEPT ![a + 1] = s[b + 1], ![b + 1] = s[a + 1]]

\* slice::reverse.
RECURSIVE VecReverse(_)
VecReverse(s) ==
    IF s = <<>> THEN <<>> ELSE Append(VecReverse(Tail(s)), Head(s))

\* Vec::pop: the list left, the last pointer gone; an empty list stays
\* empty.
VecPop(s) == IF s = <<>> THEN s ELSE SubSeq(s, 1, Len(s) - 1)

\* A truncate that keeps the element at position n as well.
VecTruncateInclusive(s, n) ==
    IF n >= Len(s) THEN s ELSE SubSeq(s, 1, n + 1)

\* Vec::truncate(n): no effect when n >= len.
VecTruncate(s, n) == IF n >= Len(s) THEN s ELSE SubSeq(s, 1, n)

\* Vec::splice(start..end, new), start <= end <= len: the list left.
VecSplice(s, start, end, new) ==
    SubSeq(s, 1, start) \o new \o SubSeq(s, end + 1, Len(s))

\* Vec::splice(start..end, new): the elements removed.
VecDrained(s, start, end) == SubSeq(s, start + 1, end)

----------------------------------------------------------------------------
\* The effect of a call.

\* A return that privatizes the Structure only when the pointer list
\* changed.
ReturnsLazily(self, newItems, newHeap, op) ==
    /\ items' = [items EXCEPT ![self] = newItems]
    /\ heap' = newHeap
    /\ structure' = IF newItems = items[self] THEN structure
                    ELSE Privatize(self)
    /\ last' = Call(op, self, "ok")
    /\ UNCHANGED <<thread, mutex>>
    /\ UNCHANGED <<live, arena>>

\* A &mut self method that returns: the pointer list and the arena are as
\* the method left them, the Structure is private to self afterwards.
Returns(self, newItems, newHeap, op) ==
    /\ items' = [items EXCEPT ![self] = newItems]
    /\ heap' = newHeap
    /\ structure' = Privatize(self)
    /\ last' = Call(op, self, "ok")
    /\ UNCHANGED <<thread, mutex>>
    /\ UNCHANGED <<live, arena>>

\* A method that panics: what it allocated before the panic stays
\* allocated, the pointer list is untouched.
Panics(self, newHeap, op) ==
    /\ heap' = newHeap
    /\ last' = Call(op, self, "panic")
    /\ UNCHANGED <<thread, mutex>>
    /\ UNCHANGED <<live, arena, items, structure>>

\* A &self method that returns.
Reads(self, op) ==
    /\ last' = Call(op, self, "ok")
    /\ UNCHANGED <<thread, mutex>>
    /\ UNCHANGED <<live, arena, items, structure, heap>>

\* A method that returns a new instance n over arena a with pointer list
\* its, the Structures being st.
Builds(n, a, its, st, newHeap, op, self) ==
    /\ live' = live \cup {n}
    /\ arena' = [arena EXCEPT ![n] = a]
    /\ items' = [items EXCEPT ![n] = its]
    /\ structure' = st
    /\ heap' = newHeap
    /\ last' = Call(op, self, "ok")
    /\ UNCHANGED <<thread, mutex>>

----------------------------------------------------------------------------
\* Construction.

\* A constructor that takes the arena of an instance that exists already.
FromVecInSharedArena(vec, op) ==
    /\ live # Inst
    /\ Room(1 + Len(vec))
    /\ LET n == FreeInst
           a == IF live = {} THEN FreshArena ELSE arena[Min(live)]
       IN  Builds(n, a, allocPtrs(heap, a, vec), structure \cup {{n}},
                  allocAll(heap, a, vec), op, n)

\* Arc::new(CowArena::..) and the allocation of each value of vec: a new
\* arena holding the values of vec, in order, and a pointer to each.
FromVec(vec, op) ==
    /\ live # Inst
    /\ Room(1 + Len(vec))
    /\ LET n == FreeInst
           a == FreshArena
       IN  Builds(n, a, allocPtrs(heap, a, vec), structure \cup {{n}},
                  allocAll(heap, a, vec), op, n)

\* CowVec::new()
new == FromVec(<<>>, "new")

\* CowVec::with_capacity(capacity): capacity only reserves memory.
with_capacity(capacity) == FromVec(<<>>, "with_capacity")

\* Default::default()
default == FromVec(<<>>, "default")

\* A from that stores the values of vec last to first.
from_reversed(vec) == FromVec(VecReverse(vec), "from")

\* From<Vec<T>>::from(vec)
from(vec) == FromVec(vec, "from")

\* Clone::clone as it is called by name and by clone_with_max_capacity:
\* the arena is shared, the pointer list is the same.
CloneOf(self, op) ==
    /\ live # Inst
    /\ Room(1)
    /\ LET n == FreeInst
       IN  Builds(n, arena[self], items[self], Attach(n, self), heap, op,
                  self)

\* A clone that copies the values into an arena of its own.
clone_deep(self) ==
    /\ self \in live
    /\ live # Inst
    /\ Room(1 + Len(items[self]))
    /\ LET n == FreeInst
           a == FreshArena
           vs == Content(self)
       IN  Builds(n, a, allocPtrs(heap, a, vs), structure \cup {{n}},
                  allocAll(heap, a, vs), "clone", self)

\* A clone that allocates copies of the values next to the originals.
clone_copies(self) ==
    /\ self \in live
    /\ live # Inst
    /\ Room(1 + Len(items[self]))
    /\ LET n == FreeInst
           a == arena[self]
           vs == Content(self)
       IN  Builds(n, a, allocPtrs(heap, a, vs), structure \cup {{n}},
                  allocAll(heap, a, vs), "clone", self)

\* Clone::clone
clone(self) ==
    /\ self \in live
    /\ CloneOf(self, "clone")

\* The name of instance i once instance self is gone: the instances are
\* numbered 1..n in the order they were made.
Renamed(i, self) == IF i > self THEN i - 1 ELSE i

\* The first of the instances lv that references arena a.
FirstOf(a, lv) == Min({i \in lv : arena[i] = a})

\* The name of arena a once only the instances lv are left: the arenas are
\* numbered in the order of the first instance that references each.
RenamedArena(a, lv) ==
    Cardinality({b \in {arena[i] : i \in lv} : FirstOf(b, lv) <= FirstOf(a, lv)})

\* Dropping an instance releases its Arc<CowArena<T>> and its Structure; an
\* arena goes with its last reference. The instances and arenas left keep
\* their pointer lists and values, under the names Renamed and RenamedArena
\* give them.
drop(self) ==
    /\ self \in live
    /\ LET lv == live \ {self}
           old(n) == CHOOSE i \in lv : Renamed(i, self) = n
           was(a) == CHOOSE b \in {arena[i] : i \in lv} : RenamedArena(b, lv) = a
       IN  /\ live' = {Renamed(i, self) : i \in lv}
           /\ arena' = [n \in Inst |->
                          IF n \in 1..Cardinality(lv)
                          THEN RenamedArena(arena[old(n)], lv)
                          ELSE 0]
           /\ items' = [n \in Inst |->
                          IF n \in 1..Cardinality(lv)
                          THEN [k \in 1..Len(items[old(n)]) |->
                                  <<RenamedArena(items[old(n)][k][1], lv),
                                    items[old(n)][k][2]>>]
                          ELSE <<>>]
           /\ structure' = {{Renamed(i, self) : i \in b \ {self}} :
                               b \in structure} \ {{}}
           /\ heap' = [a \in ArenaId |->
                         IF a \in 1..Cardinality({arena[i] : i \in lv})
                         THEN heap[was(a)]
                         ELSE <<>>]
    /\ last' = Call("drop", self, "ok")
    /\ UNCHANGED <<thread, mutex>>

----------------------------------------------------------------------------
\* Mutation.

\* CowVec::push
push(self, value) ==
    /\ self \in live
    /\ Room(1)
    /\ LET a == arena[self]
           ptr == allocPtr(heap, a)
       IN  Returns(self, Append(items[self], ptr), alloc(heap, a, value),
                   "push")

\* A set that writes through the pointer it finds at index.
set_in_place(self, index, value) ==
    /\ self \in live
    /\ IF index >= Len(items[self])
       THEN Panics(self, heap, "set")
       ELSE LET ptr == items[self][index + 1]
            IN  Returns(self, items[self],
                        [heap EXCEPT ![ptr[1]][ptr[2]] = value], "set")

\* A set whose bounds check lets index == len through, as an append.
set_off_by_one(self, index, value) ==
    /\ self \in live
    /\ IF index > Len(items[self])
       THEN Panics(self, heap, "set")
       ELSE /\ Room(1)
            /\ LET a == arena[self]
                   ptr == allocPtr(heap, a)
               IN  Returns(self,
                           IF index < Len(items[self])
                           THEN [items[self] EXCEPT ![index + 1] = ptr]
                           ELSE Append(items[self], ptr),
                           alloc(heap, a, value), "set")

\* CowVec::set: the bounds check, then one allocation, then the pointer at
\* index is redirected.
set(self, index, value) ==
    /\ self \in live
    /\ IF index >= Len(items[self])
       THEN Panics(self, heap, "set")
       ELSE /\ Room(1)
            /\ LET a == arena[self]
                   ptr == allocPtr(heap, a)
               IN  Returns(self, [items[self] EXCEPT ![index + 1] = ptr],
                           alloc(heap, a, value), "set")

\* A pop that hands out the first element.
popped_first(h, its) ==
    IF its = <<>> THEN None ELSE Some(deref(h, its[1]))

\* What pop returns for a pointer list: self.items.pop() mapped through
\* the pointer, None for an empty list.
popped(h, its) ==
    IF its = <<>> THEN None ELSE Some(deref(h, its[Len(its)]))

\* What CowVec::pop returns.
pop_returns(self) == popped(heap, items[self])

\* What pop after pop returns until it returns None.
RECURSIVE pop_all(_, _)
pop_all(h, its) ==
    IF its = <<>> THEN <<>>
    ELSE popped(h, its) \o pop_all(h, VecPop(its))

\* The pointer list after k pops.
RECURSIVE pop_times(_, _)
pop_times(its, k) == IF k = 0 THEN its ELSE pop_times(VecPop(its), k - 1)

\* A pop that takes the value back out of the arena when it sits in the
\* arena's last slot and no other instance points to it.
pop_frees(self) ==
    /\ self \in live
    /\ LET its == items[self]
           a == arena[self]
           lastPtr == its[Len(its)]
       IN  IF its = <<>>
           THEN Returns(self, its, heap, "pop")
           ELSE IF /\ lastPtr[2] = arenaLen(heap, a)
                   /\ \A j \in live \ {self} : \A k \in 1..Len(items[j]) :
                         items[j][k] # lastPtr
                   /\ \A k \in 1..(Len(its) - 1) : its[k] # lastPtr
                THEN Returns(self, SubSeq(its, 1, Len(its) - 1),
                             [heap EXCEPT ![a] =
                                SubSeq(@, 1, Len(@) - 1)], "pop")
                ELSE Returns(self, SubSeq(its, 1, Len(its) - 1), heap,
                             "pop")

\* CowVec::pop: the last pointer leaves the list, its value stays in the
\* arena.
pop(self) ==
    /\ self \in live
    /\ Returns(self, VecPop(items[self]), heap, "pop")

\* A remove that fills the gap with the last element (Vec::swap_remove).
swap_remove(self, index) ==
    /\ self \in live
    /\ IF index >= Len(items[self])
       THEN Panics(self, heap, "remove")
       ELSE LET its == items[self]
                moved == [its EXCEPT ![index + 1] = its[Len(its)]]
            IN  Returns(self, SubSeq(moved, 1, Len(its) - 1), heap, "remove")

\* What CowVec::remove returns when it returns: the value behind the
\* pointer Vec::remove took out.
remove_returns(self, index) == deref(heap, items[self][index + 1])

\* CowVec::remove: Vec::remove panics when index >= len.
remove(self, index) ==
    /\ self \in live
    /\ IF index >= Len(items[self])
       THEN Panics(self, heap, "remove")
       ELSE Returns(self, VecRemove(items[self], index), heap, "remove")

\* CowVec::swap: slice::swap panics when a or b is out of bounds.
swap(self, a, b) ==
    /\ self \in live
    /\ IF a >= Len(items[self]) \/ b >= Len(items[self])
       THEN Panics(self, heap, "swap")
       ELSE Returns(self, VecSwap(items[self], a, b), heap, "swap")

\* A reverse that allocates the values anew in reversed order.
reverse_copies(self) ==
    /\ self \in live
    /\ Room(Len(items[self]))
    /\ LET a == arena[self]
           vs == to_vec(heap, VecReverse(items[self]))
       IN  Returns(self, allocPtrs(heap, a, vs), allocAll(heap, a, vs),
                   "reverse")

\* CowVec::reverse
reverse(self) ==
    /\ self \in live
    /\ Returns(self, VecReverse(items[self]), heap, "reverse")

\* CowVec::truncate
truncate(self, n) ==
    /\ self \in live
    /\ Returns(self, VecTruncate(items[self], n), heap, "truncate")

\* A clear that starts over with a new instance.
clear_as_new(self) ==
    /\ self \in live
    /\ items' = [items EXCEPT ![self] = <<>>]
    /\ arena' = IF is_storage_shared(self)
                THEN [arena EXCEPT ![self] = FreshArena]
                ELSE arena
    /\ heap' = heap
    /\ structure' = Privatize(self)
    /\ last' = Call("clear", self, "ok")
    /\ UNCHANGED <<thread, mutex>>
    /\ UNCHANGED live

\* CowVec::clear
clear(self) ==
    /\ self \in live
    /\ Returns(self, <<>>, heap, "clear")

\* An extend that puts the new elements in front.
extend_prepends(self, iter) ==
    /\ self \in live
    /\ Room(Len(iter))
    /\ LET a == arena[self]
       IN  Returns(self, allocPtrs(heap, a, iter) \o items[self],
                   allocAll(heap, a, iter), "extend")

\* CowVec::extend: one push per item.
extend(self, iter) ==
    /\ self \in live
    /\ Room(Len(iter))
    /\ LET a == arena[self]
       IN  Returns(self, items[self] \o allocPtrs(heap, a, iter),
                   allocAll(heap, a, iter), "extend")

\* An insert that appends whatever the index.
insert_appends(self, index, value) ==
    /\ self \in live
    /\ Room(1)
    /\ LET a == arena[self]
           ptr == allocPtr(heap, a)
           newHeap == alloc(heap, a, value)
       IN  IF index > Len(items[self])
           THEN Panics(self, newHeap, "insert")
           ELSE Returns(self, Append(items[self], ptr), newHeap, "insert")

\* CowVec::insert: the value is allocated first; Vec::insert then panics
\* when index > len.
insert(self, index, value) ==
    /\ self \in live
    /\ Room(1)
    /\ LET a == arena[self]
           ptr == allocPtr(heap, a)
           newHeap == alloc(heap, a, value)
       IN  IF index > Len(items[self])
           THEN Panics(self, newHeap, "insert")
           ELSE Returns(self, VecInsert(items[self], index, ptr), newHeap,
                        "insert")

\* A retain that keeps the values f rejects.
retain_rejected(self, f) ==
    /\ self \in live
    /\ LET keep(ptr) == deref(heap, ptr) \notin f
       IN  Returns(self, SelectSeq(items[self], keep), heap, "retain")

\* CowVec::retain: f is given as the set of values it accepts.
retain(self, f) ==
    /\ self \in live
    /\ LET keep(ptr) == deref(heap, ptr) \in f
       IN  Returns(self, SelectSeq(items[self], keep), heap, "retain")

\* A split_off whose tail starts one past at: the element at `at` is lost.
split_off_skips(self, at) ==
    /\ self \in live
    /\ IF at > Len(items[self])
       THEN Panics(self, heap, "split_off")
       ELSE /\ live # Inst
            /\ Room(1)
            /\ LET n == FreeInst
                   its == items[self]
               IN  /\ live' = live \cup {n}
                   /\ arena' = [arena EXCEPT ![n] = arena[self]]
                   /\ items' = [items EXCEPT
                                   ![self] = SubSeq(its, 1, at),
                                   ![n] = SubSeq(its, at + 2, Len(its))]
                   /\ structure' = Privatize(self) \cup {{n}}
                   /\ heap' = heap
                   /\ last' = Call("split_off", self, "ok")
                   /\ UNCHANGED <<thread, mutex>>

\* A split_off whose tail copies its values into an arena of its own.
split_off_new_arena(self, at) ==
    /\ self \in live
    /\ IF at > Len(items[self])
       THEN Panics(self, heap, "split_off")
       ELSE /\ live # Inst
            /\ Room(1 + Len(items[self]) - at)
            /\ LET n == FreeInst
                   a == FreshArena
                   its == items[self]
                   vs == to_vec(heap, SubSeq(its, at + 1, Len(its)))
               IN  /\ live' = live \cup {n}
                   /\ arena' = [arena EXCEPT ![n] = a]
                   /\ items' = [items EXCEPT
                                   ![self] = SubSeq(its, 1, at),
                                   ![n] = allocPtrs(heap, a, vs)]
                   /\ structure' = Privatize(self) \cup {{n}}
                   /\ heap' = allocAll(heap, a, vs)
                   /\ last' = Call("split_off", self, "ok")
                   /\ UNCHANGED <<thread, mutex>>

\* CowVec::split_off: Vec::split_off panics when at > len; the tail is a
\* new instance over the same arena.
split_off(self, at) ==
    /\ self \in live
    /\ IF at > Len(items[self])
       THEN Panics(self, heap, "split_off")
       ELSE /\ live # Inst
            /\ Room(1)
            /\ LET n == FreeInst
                   its == items[self]
               IN  /\ live' = live \cup {n}
                   /\ arena' = [arena EXCEPT ![n] = arena[self]]
                   /\ items' = [items EXCEPT
                                   ![self] = SubSeq(its, 1, at),
                                   ![n] = SubSeq(its, at + 1, Len(its))]
                   /\ structure' = Privatize(self) \cup {{n}}
                   /\ heap' = heap
                   /\ last' = Call("split_off", self, "ok")
                   /\ UNCHANGED <<thread, mutex>>

\* splice: the start of the range.
SpliceStart(b) ==
    CASE b.kind = "Included" -> b.n
      [] b.kind = "Excluded" -> b.n + 1
      [] OTHER -> 0

\* An end of range that takes an inclusive bound for an exclusive one.
SpliceEndExclusive(b, length) ==
    CASE b.kind = "Included" -> b.n
      [] b.kind = "Excluded" -> b.n
      [] OTHER -> length

\* splice: the end of the range.
SpliceEnd(b, length) ==
    CASE b.kind = "Included" -> b.n + 1
      [] b.kind = "Excluded" -> b.n
      [] OTHER -> length

\* CowVec::splice: the replacements are allocated first; Vec::splice then
\* panics when start > end or end > len.
splice(self, sb, eb, replace_with) ==
    /\ self \in live
    /\ Room(Len(replace_with))
    /\ LET a == arena[self]
           its == items[self]
           start == SpliceStart(sb)
           end == SpliceEnd(eb, Len(its))
           new_ptrs == allocPtrs(heap, a, replace_with)
           newHeap == allocAll(heap, a, replace_with)
       IN  IF start > end \/ end > Len(its)
           THEN Panics(self, newHeap, "splice")
           ELSE Returns(self, VecSplice(its, start, end, new_ptrs), newHeap,
                        "splice")

\* What CowVec::splice returns when it returns: the values behind the
\* pointers Vec::splice took out, read after the replacements were
\* allocated.
splice_returns(self, sb, eb, replace_with) ==
    LET its == items[self]
        start == SpliceStart(sb)
        end == SpliceEnd(eb, Len(its))
        newHeap == allocAll(heap, arena[self], replace_with)
    IN  to_vec(newHeap, VecDrained(its, start, end))

\* A compaction that fills the new arena but hands the new instance the
\* pointers of the source.
CompactedStale(self) ==
    /\ live # Inst
    /\ Room(1 + Len(items[self]))
    /\ LET n == FreeInst
           a == FreshArena
           vs == Content(self)
       IN  Builds(n, a, items[self], structure \cup {{n}},
                  allocAll(heap, a, vs), "clone_with_max_capacity", self)

\* The new arena of clone_with_max_capacity: a copy of each current element
\* and a pointer to each.
Compacted(self) ==
    /\ live # Inst
    /\ Room(1 + Len(items[self]))
    /\ LET n == FreeInst
           a == FreshArena
           vs == Content(self)
       IN  Builds(n, a, allocPtrs(heap, a, vs), structure \cup {{n}},
                  allocAll(heap, a, vs), "clone_with_max_capacity", self)

\* A compaction that copies every value of the arena, reachable or not.
CompactedWithGarbage(self) ==
    /\ live # Inst
    /\ Room(1 + arenaLen(heap, arena[self]))
    /\ LET n == FreeInst
           a == FreshArena
           old == heap[arena[self]]
       IN  Builds(n, a,
                  [k \in 1..Len(items[self]) |-> <<a, items[self][k][2]>>],
                  structure \cup {{n}}, [heap EXCEPT ![a] = old],
                  "clone_with_max_capacity", self)

\* A clone_with_max_capacity that compacts at the limit already.
clone_with_max_capacity_strict(self, max_capacity) ==
    /\ self \in live
    /\ IF arenaLen(heap, arena[self]) < max_capacity
       THEN CloneOf(self, "clone_with_max_capacity")
       ELSE Compacted(self)

\* A clone_with_max_capacity whose compaction keeps the garbage.
clone_with_max_capacity_garbage(self, max_capacity) ==
    /\ self \in live
    /\ IF arenaLen(heap, arena[self]) <= max_capacity
       THEN CloneOf(self, "clone_with_max_capacity")
       ELSE CompactedWithGarbage(self)

\* CowVec::clone_with_max_capacity: a clone while the arena holds at most
\* max_capacity allocations, else a new arena holding a copy of each
\* current element.
clone_with_max_capacity(self, max_capacity) ==
    /\ self \in live
    /\ IF arenaLen(heap, arena[self]) <= max_capacity
       THEN CloneOf(self, "clone_with_max_capacity")
       ELSE Compacted(self)

\* CowVec::get: a read that returns for every index.
get(self, index) ==
    /\ self \in live
    /\ Reads(self, "get")

\* The methods that take &self and only read: len, is_empty, first, last,
\* iter (run to its end), contains, position, to_vec, as_slice, and the two
\* sharing queries.
ReadOnly ==
    {"len", "is_empty", "first", "last", "iter", "contains", "position",
     "to_vec", "as_slice", "is_structure_shared", "is_storage_shared"}

\* A call of one of the read-only methods; whichever method it is, the call
\* is recorded as a read.
read(self, method) ==
    /\ self \in live
    /\ method \in ReadOnly
    /\ Reads(self, "read")

\* A read by index that copies the element as index_mut does.
index_copies(self, i) ==
    /\ self \in live
    /\ IF i >= Len(items[self])
       THEN Panics(self, heap, "index")
       ELSE /\ Room(1)
            /\ LET a == arena[self]
                   ptr == allocPtr(heap, a)
               IN  Returns(self, [items[self] EXCEPT ![i + 1] = ptr],
                           alloc(heap, a, deref(heap, items[self][i + 1])),
                           "index")

\* Index::index: get(index).expect(..) panics when index >= len.
index(self, i) ==
    /\ self \in live
    /\ IF i >= Len(items[self])
       THEN Panics(self, heap, "index")
       ELSE Reads(self, "index")

\* An index_mut that allocates only when the caller writes.
index_mut_lazy(self, i, write) ==
    /\ self \in live
    /\ IF i >= Len(items[self])
       THEN Panics(self, heap, "index_mut")
       ELSE IF write = {}
            THEN Returns(self, items[self], heap, "index_mut")
            ELSE /\ Room(1)
                 /\ LET a == arena[self]
                        ptr == allocPtr(heap, a)
                    IN  Returns(self, [items[self] EXCEPT ![i + 1] = ptr],
                                alloc(heap, a, CHOOSE v \in write : TRUE),
                                "index_mut")

\* IndexMut::index_mut: the bounds check, then a copy of the current value
\* is allocated and the pointer at index redirected to it; the caller may
\* write through the reference returned. write is the set of the values
\* the caller writes: none or one.
index_mut(self, i, write) ==
    /\ self \in live
    /\ IF i >= Len(items[self])
       THEN Panics(self, heap, "index_mut")
       ELSE /\ Room(1)
            /\ LET a == arena[self]
                   current == deref(heap, items[self][i + 1])
                   ptr == allocPtr(heap, a)
                   stored == IF write = {} THEN current
                             ELSE CHOOSE v \in write : TRUE
               IN  Returns(self, [items[self] EXCEPT ![i + 1] = ptr],
                           alloc(heap, a, stored), "index_mut")

----------------------------------------------------------------------------
\* Before any instance is constructed. An instance that does not exist has
\* arena 0 and no pointers.
Init ==
    /\ live = {}
    /\ arena = [i \in Inst |-> 0]
    /\ items = [i \in Inst |-> <<>>]
    /\ structure = {}
    /\ heap = [a \in ArenaId |-> <<>>]
    /\ last = Call("none", 0, "ok")
    /\ thread = <<>>
    /\ mutex = [a \in ArenaId |-> 0]

\* The indices a call is tried with: those in range, the length and one
\* past it.
Indices(self) == 0..(Len(items[self]) + 1)

\* The positions a pair of indices or a range is built from: those in
\* range and the length.
Positions(self) == 0..Len(items[self])

\* The limits clone_with_max_capacity is tried with: up to one past the
\* allocation count of the arena.
Limits(self) == 0..(arenaLen(heap, arena[self]) + 1)

\* The ranges splice is tried with: a..b, a..=b, a.., ..b, ..=b, .. and,
\* built from Bound values, (Excluded(a), Unbounded).
Ranges(self) ==
    LET I(n) == [kind |-> "Included", n |-> n]
        E(n) == [kind |-> "Excluded", n |-> n]
        U == [kind |-> "Unbounded", n |-> 0]
        N == Positions(self)
    IN  {<<I(a), E(b)>> : a \in N, b \in N}
            \cup UNION {{<<I(a), I(b)>> : b \in {c \in N : a <= c}} : a \in N}
            \cup {<<I(a), U>> : a \in N}
            \cup {<<U, E(b)>> : b \in N}
            \cup {<<U, I(b)>> : b \in N}
            \cup {<<E(a), U>> : a \in N}
            \cup {<<U, U>>}

Next ==
    \/ new
    \/ \E capacity \in 0..1 : with_capacity(capacity)
    \/ default
    \/ \E vec \in Iters : from(vec)
    \/ \E self \in live : clone(self)
    \/ \E self \in live : drop(self)
    \/ \E self \in live, value \in Values : push(self, value)
    \/ \E self \in live : \E ix \in Positions(self), value \in Values :
          set(self, ix, value)
    \/ \E self \in live : pop(self)
    \/ \E self \in live : \E ix \in Positions(self) : remove(self, ix)
    \/ \E self \in live : \E a \in Positions(self), b \in Positions(self) :
          swap(self, a, b)
    \/ \E self \in live : reverse(self)
    \/ \E self \in live : \E n \in Indices(self) : truncate(self, n)
    \/ \E self \in live : clear(self)
    \/ \E self \in live, iter \in Iters : extend(self, iter)
    \/ \E self \in live : \E ix \in Indices(self), value \in Values :
          insert(self, ix, value)
    \/ \E self \in live, f \in SUBSET Values : retain(self, f)
    \/ \E self \in live : \E at \in Indices(self) : split_off(self, at)
    \/ \E self \in live, replace_with \in Iters :
          /\ Room(Len(replace_with))
          /\ \E r \in Ranges(self) : splice(self, r[1], r[2], replace_with)
    \/ \E self \in live : \E max_capacity \in Limits(self) :
          clone_with_max_capacity(self, max_capacity)
    \/ \E self \in live : \E ix \in Indices(self) : get(self, ix)
    \/ \E self \in live, method \in ReadOnly : read(self, method)
    \/ \E self \in live : \E i \in Positions(self) : index(self, i)
    \/ \E self \in live :
          \E i \in Positions(self), write \in {{}} \cup {{v} : v \in Values} :
             index_mut(self, i, write)

Spec == Init /\ [][Next]_vars

\* The model is well formed: the Structures partition the live instances,
\* the owners of one Structure hold the same pointers into the same arena,
\* and an arena no instance references holds nothing.
TypeOK ==
    /\ live \subseteq Inst
    /\ UNION structure = live
    /\ \A b \in structure : b # {}
    /\ \A b, c \in structure : b # c => b \cap c = {}
    /\ \A i, j \in live :
          owners(i) = owners(j) => items[i] = items[j] /\ arena[i] = arena[j]
    /\ \A i \in live : arena[i] \in ArenaId
    /\ live = 1..Cardinality(live)
    /\ \A i \in live : \A k \in 1..Len(items[i]) :
          items[i][k][1] = arena[i] /\ items[i][k][2] \in 1..Len(heap[arena[i]])
    /\ \A i \in Inst \ live : arena[i] = 0 /\ items[i] = <<>>
    /\ \A a \in ArenaId :
          (\A i \in live : arena[i] # a) => heap[a] = <<>>
    /\ MemoryUsed <= MaxMemory


----------------------------------------------------------------------------
\* Threads.  Each thread owns one clone of a common origin (by value, so
\* under &mut only that thread can mutate it) and calls push, set, pop and
\* clone_with_max_capacity on it, MaxOps calls in all.  A call that reaches CowArena::alloc or
\* CowArena::len is taken in steps: lock the Mutex, act on the Arena behind
\* it, drop the guard, then finish on the thread's own pointer list.
MaxThread == 2
MaxOps == 3

Thread == 1..MaxThread

\* The arenas of a run: the shared one and one per compacting clone.
ConcArena == 1..(1 + MaxThread * MaxOps)

\* Thread t is between calls.
Idle(t) == thread[t].pc = "idle"

\* The calls the threads have made so far.
RECURSIVE OpsMade(_)
OpsMade(n) == IF n = 0 THEN 0 ELSE thread[n].ops + OpsMade(n - 1)

\* Thread t can make one more call: it is between calls and the run has
\* calls left.
CanCall(t) == Idle(t) /\ OpsMade(MaxThread) < MaxOps

\* A thread between calls: nothing of a call is kept but the number of
\* calls made, the content the calls so far give a plain list (alone), and
\* the locations its allocations returned (got).
Returned(r) ==
    [r EXCEPT !.pc = "idle", !.op = "none", !.on = 0, !.index = 0,
              !.max = 0, !.slot = 0, !.pending = <<>>, !.ptrs = <<>>]

\* The arena a compacting clone of thread t creates.
NewArena(t) == 1 + (t - 1) * MaxOps + thread[t].ops

\* The lock thread t is after belongs to the count query
\* self.arena.len() of clone_with_max_capacity.
Querying(t) ==
    thread[t].op = "clone_with_max_capacity" /\ thread[t].on = arena[t]

\* Arena::alloc's store of the value into the slot after the length it
\* read.
arena_write(h, a, slot, value) ==
    IF slot = Len(h[a])
    THEN alloc(h, a, value)
    ELSE [h EXCEPT ![a][slot + 1] = value]

\* push: the call up to self.arena.alloc(value).
call_push(t, value) ==
    /\ CanCall(t)
    /\ thread' = [thread EXCEPT ![t] =
                    [@ EXCEPT !.pc = "lock", !.op = "push", !.on = arena[t],
                              !.pending = <<value>>, !.ptrs = <<>>,
                              !.alone = Append(@, value), !.ops = @ + 1]]
    /\ UNCHANGED <<live, arena, items, structure, heap, last, mutex>>

\* set: the bounds check, then the call up to self.arena.alloc(value).  A
\* panic ends the thread.
call_set(t, ix, value) ==
    /\ CanCall(t)
    /\ IF ix >= Len(items[t])
       THEN thread' = [thread EXCEPT ![t] =
                         [@ EXCEPT !.pc = "panicked", !.ops = @ + 1]]
       ELSE thread' = [thread EXCEPT ![t] =
                         [@ EXCEPT !.pc = "lock", !.op = "set",
                                   !.on = arena[t], !.index = ix,
                                   !.pending = <<value>>, !.ptrs = <<>>,
                                   !.alone = [@ EXCEPT ![ix + 1] = value],
                                   !.ops = @ + 1]]
    /\ UNCHANGED <<live, arena, items, structure, heap, last, mutex>>

\* pop: self.items.pop(), on the thread's own pointer list.
call_pop(t) ==
    /\ CanCall(t)
    /\ items' = [items EXCEPT ![t] = VecTruncate(@, Len(@) - 1)]
    /\ structure' = Privatize(t)
    /\ thread' = [thread EXCEPT ![t] =
                    [@ EXCEPT !.alone = VecTruncate(@, Len(@) - 1),
                              !.ops = @ + 1]]
    /\ UNCHANGED <<live, arena, heap, last, mutex>>

\* v = v.clone_with_max_capacity(max_capacity): the call up to
\* self.arena.len().
call_clone_with_max_capacity(t, max_capacity) ==
    /\ CanCall(t)
    /\ thread' = [thread EXCEPT ![t] =
                    [@ EXCEPT !.pc = "lock",
                              !.op = "clone_with_max_capacity",
                              !.on = arena[t], !.max = max_capacity,
                              !.pending = <<>>, !.ptrs = <<>>,
                              !.ops = @ + 1]]
    /\ UNCHANGED <<live, arena, items, structure, heap, last, mutex>>

\* A lock() that returns whether or not the Mutex is held.
lock_without_exclusion(t) ==
    /\ thread[t].pc = "lock"
    /\ mutex' = [mutex EXCEPT ![thread[t].on] = t]
    /\ thread' = [thread EXCEPT ![t] =
                    [@ EXCEPT !.pc = IF Querying(t) THEN "len" ELSE "alloc"]]
    /\ UNCHANGED <<live, arena, items, structure, heap, last>>

\* self.arena.lock().unwrap(): returns once the Mutex is free, holding it.
lock(t) ==
    /\ thread[t].pc = "lock"
    /\ mutex[thread[t].on] = 0
    /\ mutex' = [mutex EXCEPT ![thread[t].on] = t]
    /\ thread' = [thread EXCEPT ![t] =
                    [@ EXCEPT !.pc = IF Querying(t) THEN "len" ELSE "alloc"]]
    /\ UNCHANGED <<live, arena, items, structure, heap, last>>

\* arena.alloc(value), first half: Arena::alloc reads how many values it
\* holds.
arena_alloc_read(t) ==
    /\ thread[t].pc = "alloc"
    /\ thread' = [thread EXCEPT ![t] =
                    [@ EXCEPT !.pc = "write",
                              !.slot = arenaLen(heap, thread[t].on)]]
    /\ UNCHANGED <<live, arena, items, structure, heap, last, mutex>>

\* arena.alloc(value), second half: the value is stored in the next slot
\* and the reference to it returned.
arena_alloc_write(t) ==
    /\ thread[t].pc = "write"
    /\ LET ptr == <<thread[t].on, thread[t].slot + 1>>
       IN  /\ heap' = arena_write(heap, thread[t].on, thread[t].slot,
                                  Head(thread[t].pending))
           /\ thread' = [thread EXCEPT ![t] =
                           [@ EXCEPT !.pc = "unlock",
                                     !.pending = Tail(@),
                                     !.ptrs = Append(@, ptr),
                                     !.got = @ \cup {ptr},
                                     !.allocs = @ + 1]]
    /\ UNCHANGED <<live, arena, items, structure, last, mutex>>

\* CowArena::len: the count read under the lock.
arena_len(t) ==
    /\ thread[t].pc = "len"
    /\ thread' = [thread EXCEPT ![t] =
                    [@ EXCEPT !.pc = "unlock",
                              !.slot = arenaLen(heap, thread[t].on)]]
    /\ UNCHANGED <<live, arena, items, structure, heap, last, mutex>>

\* Where a call goes on once CowArena::alloc or CowArena::len returned.
AfterUnlock(t) ==
    IF Querying(t) THEN "branch"
    ELSE IF thread[t].pending # <<>> THEN "lock"
    ELSE "store"

\* A return from CowArena::alloc or len that leaves the Mutex held.
unlock_keeps(t) ==
    /\ thread[t].pc = "unlock"
    /\ thread' = [thread EXCEPT ![t] = [@ EXCEPT !.pc = AfterUnlock(t)]]
    /\ UNCHANGED <<live, arena, items, structure, heap, last, mutex>>

\* The MutexGuard dropped at the end of CowArena::alloc or CowArena::len.
unlock(t) ==
    /\ thread[t].pc = "unlock"
    /\ mutex' = [mutex EXCEPT ![thread[t].on] = 0]
    /\ thread' = [thread EXCEPT ![t] = [@ EXCEPT !.pc = AfterUnlock(t)]]
    /\ UNCHANGED <<live, arena, items, structure, heap, last>>

\* clone_with_max_capacity once it has the count: within the limit the
\* clone shares everything, so replacing the instance by it changes
\* nothing; beyond it a new arena is created and the elements are cloned
\* into it one allocation after another.
branch(t) ==
    /\ thread[t].pc = "branch"
    /\ IF thread[t].slot <= thread[t].max
       THEN thread' = [thread EXCEPT ![t] = Returned(@)]
       ELSE thread' = [thread EXCEPT ![t] =
                         [@ EXCEPT !.pc = IF Content(t) = <<>>
                                         THEN "store" ELSE "lock",
                                   !.on = NewArena(t),
                                   !.pending = Content(t)]]
    /\ UNCHANGED <<live, arena, items, structure, heap, last, mutex>>

\* The end of a call: push appends the pointer it got, set writes it at the
\* index, the compacting clone takes the place of the instance, whose arena
\* is freed with its last reference.
store(t) ==
    /\ thread[t].pc = "store"
    /\ items' = [items EXCEPT ![t] =
                   CASE thread[t].op = "push" -> Append(@, thread[t].ptrs[1])
                     [] thread[t].op = "set" ->
                           [@ EXCEPT ![thread[t].index + 1] =
                                        thread[t].ptrs[1]]
                     [] OTHER -> thread[t].ptrs]
    /\ arena' = [arena EXCEPT ![t] = thread[t].on]
    /\ heap' = IF \E i \in live : arena'[i] = arena[t]
               THEN heap
               ELSE [heap EXCEPT ![arena[t]] = <<>>]
    /\ structure' = Privatize(t)
    /\ thread' = [thread EXCEPT ![t] = Returned(@)]
    /\ UNCHANGED <<live, last, mutex>>

\* The steps of thread t inside a call.
Run(t) ==
    \/ lock(t)
    \/ arena_alloc_read(t)
    \/ arena_alloc_write(t)
    \/ arena_len(t)
    \/ unlock(t)
    \/ branch(t)
    \/ store(t)

\* The Vecs the origin is built from.
Origins == {vec \in Iters : \A k \in 1..Len(vec) : vec[k] = k}

\* The main thread has built the origin from a Vec and given a clone of it
\* to every thread.
ConcInit ==
    \E vec \in Origins :
       /\ live = Thread
       /\ arena = [i \in Thread |-> 1]
       /\ items = [i \in Thread |->
                     allocPtrs([a \in ConcArena |-> <<>>], 1, vec)]
       /\ structure = {Thread}
       /\ heap = allocAll([a \in ConcArena |-> <<>>], 1, vec)
       /\ last = Call("clone", 1, "ok")
       /\ mutex = [a \in ConcArena |-> 0]
       /\ thread = [t \in Thread |->
                      [pc |-> "idle", op |-> "none", on |-> 0, index |-> 0,
                       max |-> 0, slot |-> 0, pending |-> <<>>,
                       ptrs |-> <<>>, got |-> {}, allocs |-> 0,
                       alone |-> vec, ops |-> 0]]

ConcNext ==
    \E t \in Thread :
       \/ \E value \in Values : call_push(t, value)
       \/ \E ix \in Positions(t), value \in Values :
             call_set(t, ix, value)
       \/ call_pop(t)
       \/ \E max_capacity \in {0, MaxMemory} :
             call_clone_with_max_capacity(t, max_capacity)
       \/ Run(t)

ConcSpec == ConcInit /\ [][ConcNext]_vars

\* Every thread that can take a step inside its call eventually takes one.
ConcLiveSpec == ConcSpec /\ \A t \in Thread : WF_vars(Run(t))

----------------------------------------------------------------------------
\* The methods the properties speak of.

\* The constructors.
Constructors == {"new", "with_capacity", "default", "from"}

\* The mutating methods that neither return a new instance nor hand out a
\* reference.
Mutators ==
    {"set", "push", "pop", "insert", "remove", "splice", "retain",
     "truncate", "clear", "reverse", "swap", "extend"}

\* Every &mut self method.
Mutating == Mutators \cup {"index_mut", "split_off"}

\* The methods that raise a contract violation on an index or range out of
\* bounds while holding &mut self.
Checked ==
    {"set", "insert", "remove", "swap", "split_off", "splice", "index_mut"}

----------------------------------------------------------------------------
\* C1. Clone independence: a call of set, push, pop, insert, remove, splice,
\* retain, truncate, clear, reverse, swap or extend on one instance, however
\* it ends, leaves every other instance (its clones and the instances it
\* was cloned from among them) alive, with the same length and the same
\* value at every index.
CloneIndependence ==
    [][last'.op \in Mutators =>
          \A j \in live : j # last'.self =>
             /\ j \in live'
             /\ len(j)' = len(j)
             /\ Content(j)' = Content(j)]_vars

\* A set has returned on an instance while another instance over the same
\* arena, of the same length, reads other values.
CloneIndependenceWitness ==
    /\ last.op = "set"
    /\ last.outcome = "ok"
    /\ \E j \in live \ {last.self} :
          /\ arena[j] = arena[last.self]
          /\ len(j) = len(last.self)
          /\ Content(j) # Content(last.self)

StoragePersistence ==
    [][\A self \in live : last'.self = self =>
          /\ last'.op = "clone" =>
                \A n \in live' \ live :
                   /\ arena'[n] = arena[self]
                   /\ is_storage_shared(self)'
                   /\ is_storage_shared(n)'
          /\ last'.op \in Mutators =>
                \A j \in live :
                   /\ j \in live'
                   /\ arena'[j] = arena[j]
                   /\ is_storage_shared(j) => is_storage_shared(j)']_vars

\* A push has returned on an instance that has left the Structure it
\* shared and is storage-shared still.
StoragePersistenceWitness ==
    /\ last.op = "push"
    /\ is_storage_shared(last.self)
    /\ ~is_structure_shared(last.self)
    /\ \E j \in live \ {last.self} :
          arena[j] = arena[last.self] /\ len(j) < len(last.self)

FreshIsPrivate ==
    [][last'.op \in Constructors =>
          \A n \in live' \ live :
             /\ ~is_structure_shared(n)'
             /\ ~is_storage_shared(n)'
             /\ \A j \in live : arena'[n] # arena[j]]_vars

\* A constructor has returned next to an instance that exists already, and
\* the instance it returned is not shared.
FreshIsPrivateWitness ==
    /\ last.op \in Constructors
    /\ Cardinality(live) >= 2
    /\ last.self \in live
    /\ ~is_structure_shared(last.self)
    /\ ~is_storage_shared(last.self)

\* C6. No partial work on error: a call of set, insert, remove, swap,
\* split_off, splice or index_mut that panics leaves every pointer list and
\* the allocation count of every arena as they were before the call.
NoPartialWork ==
    [][(last'.outcome = "panic" /\ last'.op \in Checked) =>
          /\ items' = items
          /\ \A a \in ArenaId : arenaLen(heap', a) = arenaLen(heap, a)]_vars

\* C7. Bounds enforcement: set, remove, index and index_mut panic exactly
\* when the index is >= the length, insert and split_off exactly when it is
\* > the length, swap exactly when one of its two indices is >= the length.
BoundsEnforcement ==
    [][\A self \in live : last'.self = self =>
          LET n == Len(items[self])
              panicked == last'.outcome = "panic"
              op == last'.op
          IN  \A ix \in Indices(self) :
                 /\ op = "set" =>
                       \A value \in Values :
                          set(self, ix, value) => (panicked <=> ix >= n)
                 /\ op = "remove" =>
                       (remove(self, ix) => (panicked <=> ix >= n))
                 /\ op = "index" =>
                       (index(self, ix) => (panicked <=> ix >= n))
                 /\ op = "index_mut" =>
                       \A write \in {{}} \cup {{v} : v \in Values} :
                          index_mut(self, ix, write) =>
                             (panicked <=> ix >= n)
                 /\ op = "insert" =>
                       \A value \in Values :
                          insert(self, ix, value) => (panicked <=> ix > n)
                 /\ op = "split_off" =>
                       (split_off(self, ix) => (panicked <=> ix > n))
                 /\ op = "swap" =>
                       \A b \in Indices(self) :
                          swap(self, ix, b) =>
                             (panicked <=> (ix >= n \/ b >= n))]_vars

\* An insert at an index past the length has panicked.
BoundsEnforcementWitness ==
    /\ last.op = "insert"
    /\ last.outcome = "panic"
    /\ last.self \in live
    /\ len(last.self) >= 1

StorageSharedEnds ==
    [][\A self \in live : last'.self = self =>
          /\ \A i \in live : is_storage_shared(i) =>
                IF last'.op = "drop"
                THEN i # self =>
                        (is_storage_shared(Renamed(i, self))' <=>
                            \E j \in live \ {self, i} : arena[j] = arena[i])
                ELSE i \in live' /\ is_storage_shared(i)'
          /\ last'.op = "clone_with_max_capacity" =>
                \A n \in live' \ live :
                   arena'[n] # arena[self] => ~is_storage_shared(n)']_vars

\* A drop has left one instance, not storage-shared, over an arena that
\* holds allocations the instance does not reach.
StorageSharedEndsWitness ==
    /\ last.op = "drop"
    /\ live = {1}
    /\ ~is_storage_shared(1)
    /\ len(1) >= 1
    /\ arenaLen(heap, arena[1]) > len(1)

----------------------------------------------------------------------------
\* What a call leaves alone.

\* Every value allocated before the step is where it was, unchanged.
ArenaKept ==
    \A a \in ArenaId : \A k \in 1..Len(heap[a]) :
       k <= Len(heap'[a]) /\ heap'[a][k] = heap[a][k]

\* The step allocates exactly k values, all in the arena of self.
Allocates(self, k) ==
    \A a \in ArenaId :
       arenaLen(heap', a) =
          arenaLen(heap, a) + (IF a = arena[self] THEN k ELSE 0)

\* The step changes the pointer list of no instance but self.
OthersKept(self) ==
    \A j \in live \ {self} :
       j \in live' /\ items'[j] = items[j] /\ arena'[j] = arena[j]

\* C11. set(index, value) with index < length allocates exactly one value,
\* redirects the pointer of self at index to it, leaves the length and the
\* pointer at every other position as they were, and overwrites no value
\* allocated before: every other instance, and the pointer self held at
\* index before, still read what they read.
SetCopiesOnWrite ==
    [][\A self \in live : (last'.self = self /\ last'.op = "set") =>
          \A ix \in Positions(self), value \in Values :
             (ix < len(self) /\ set(self, ix, value)) =>
                /\ last'.outcome = "ok"
                /\ Allocates(self, 1)
                /\ ArenaKept
                /\ len(self)' = len(self)
                /\ items'[self][ix + 1] =
                      <<arena[self], arenaLen(heap, arena[self]) + 1>>
                /\ Content(self)'[ix + 1] = value
                /\ \A k \in 1..len(self) :
                      k # ix + 1 => items'[self][k] = items[self][k]
                /\ deref(heap', items[self][ix + 1]) =
                      deref(heap, items[self][ix + 1])
                /\ OthersKept(self)
                /\ \A j \in live \ {self} : Content(j)' = Content(j)]_vars

\* A set has returned: the arena of the instance holds a value the instance
\* no longer points to, other than the value now at some index.
SetCopiesOnWriteWitness ==
    /\ last.op = "set"
    /\ last.outcome = "ok"
    /\ last.self \in live
    /\ LET self == last.self
           a == arena[self]
       IN  /\ len(self) >= 1
           /\ \E k \in 1..len(self) :
                 /\ items[self][k] = <<a, arenaLen(heap, a)>>
                 /\ \E old \in 1..(arenaLen(heap, a) - 1) :
                       /\ \A m \in 1..len(self) : items[self][m] # <<a, old>>
                       /\ heap[a][old] # deref(heap, items[self][k])

\* C12. index_mut at an index < length allocates exactly one value on
\* every call, written through or not: the new slot holds the value
\* written, or a copy of the current value when nothing is written; the
\* pointer of self at that index is redirected to it and no value allocated
\* before is overwritten, so every other instance reads what it read.
\* index allocates nothing.
IndexMutCopies ==
    [][\A self \in live : last'.self = self =>
          /\ last'.op = "index_mut" =>
                \A i \in Positions(self),
                   write \in {{}} \cup {{v} : v \in Values} :
                   (i < len(self) /\ index_mut(self, i, write)) =>
                      /\ Allocates(self, 1)
                      /\ ArenaKept
                      /\ items'[self][i + 1] =
                            <<arena[self], arenaLen(heap, arena[self]) + 1>>
                      /\ \A k \in 1..len(self) :
                            k # i + 1 => items'[self][k] = items[self][k]
                      /\ len(self)' = len(self)
                      /\ write = {} => Content(self)' = Content(self)
                      /\ \A v \in write : Content(self)'[i + 1] = v
                      /\ OthersKept(self)
                      /\ \A j \in live \ {self} : Content(j)' = Content(j)
          /\ last'.op = "index" => heap' = heap /\ items' = items]_vars

\* An index_mut has returned and left the content of the instance as it
\* was found, in a new slot: the last slot of the arena holds the value of
\* an earlier slot that the instance no longer points to, while another
\* instance still does.
IndexMutCopiesWitness ==
    /\ last.op = "index_mut"
    /\ last.outcome = "ok"
    /\ last.self \in live
    /\ LET self == last.self
           a == arena[self]
           n == arenaLen(heap, a)
       IN  /\ n >= 2
           /\ \E k \in 1..len(self) : items[self][k] = <<a, n>>
           /\ \E j \in live \ {self} :
                 /\ arena[j] = a
                 /\ Content(j) = Content(self)
                 /\ items[j] # items[self]

\* C13. split_off(at) with at <= length leaves self the elements at
\* positions [0, at) in order and returns a new instance with the elements
\* at positions [at, length) in order; nothing is allocated and every
\* other instance, the clones of self among them, is as it was.
SplitOffParts ==
    [][\A self \in live : (last'.self = self /\ last'.op = "split_off") =>
          \A at \in Indices(self) :
             (at <= len(self) /\ split_off(self, at)) =>
                /\ last'.outcome = "ok"
                /\ Content(self)' = SubSeq(Content(self), 1, at)
                /\ len(self)' = at
                /\ \A n \in live' \ live :
                      /\ Content(n)' =
                            SubSeq(Content(self), at + 1, len(self))
                      /\ len(n)' = len(self) - at
                      /\ Content(self)' \o Content(n)' = Content(self)
                /\ Cardinality(live' \ live) = 1
                /\ heap' = heap
                /\ OthersKept(self)
                /\ \A j \in live \ {self} : Content(j)' = Content(j)]_vars

\* A split_off has returned, leaving an element at least on each side:
\* the receiver and the newest instance, over one arena.
SplitOffPartsWitness ==
    /\ last.op = "split_off"
    /\ last.outcome = "ok"
    /\ last.self \in live
    /\ Cardinality(live) >= 2
    /\ last.self # Cardinality(live)
    /\ len(last.self) >= 1
    /\ len(Cardinality(live)) >= 1
    /\ Content(last.self) # Content(Cardinality(live))

\* C14. Right after tail = self.split_off(at), tail references the arena
\* of self and both are storage-shared; tail is alone on a Structure of
\* its own, which is not the Structure of self.
SplitOffSharesArena ==
    [][\A self \in live :
          (/\ last'.self = self
           /\ last'.op = "split_off"
           /\ last'.outcome = "ok") =>
             \A n \in live' \ live :
                /\ arena'[n] = arena[self]
                /\ arena'[self] = arena[self]
                /\ is_storage_shared(n)'
                /\ is_storage_shared(self)'
                /\ ~is_structure_shared(n)'
                /\ owners(n)' = {n}
                /\ owners(n)' # owners(self)']_vars

\* A split_off has returned on an instance that shared its Structure with
\* a clone: receiver, clone and tail are over one arena, the tail alone
\* on its Structure.
SplitOffSharesArenaWitness ==
    /\ last.op = "split_off"
    /\ last.outcome = "ok"
    /\ live = {1, 2, 3}
    /\ last.self \in {1, 2}
    /\ \A j \in live : arena[j] = arena[1] /\ is_storage_shared(j)
    /\ owners(3) = {3}
    /\ len(3) >= 1
    /\ items[1] # items[2]

\* The first position of a range, and the position one past its last, as
\* Rust reads the bounds of a range over a list of the given length.
RangeFrom(b) ==
    IF b.kind = "Unbounded" THEN 0
    ELSE IF b.kind = "Included" THEN b.n ELSE b.n + 1

RangeTo(b, length) ==
    IF b.kind = "Unbounded" THEN length
    ELSE IF b.kind = "Included" THEN b.n + 1 ELSE b.n

\* C15. splice(range, replace_with) over positions [start, end) with
\* start <= end <= length returns the elements that were at [start, end)
\* in order and leaves self equal to old[0..start] ++ replace_with ++
\* old[end..]; it allocates exactly one value per replacement, in order,
\* and the values removed stay allocated where they were.
SpliceReplaces ==
    [][\A self \in live : (last'.self = self /\ last'.op = "splice") =>
          LET a == arena[self]
              old == Content(self)
              allocated(replace_with) ==
                 heap' = allocAll(heap, a, replace_with)
          IN  /\ \E replace_with \in Iters :
                    /\ allocated(replace_with)
                    /\ \E r \in Ranges(self) :
                          splice(self, r[1], r[2], replace_with)
              /\ \A replace_with \in Iters : allocated(replace_with) =>
                    \A r \in Ranges(self) :
                       LET start == RangeFrom(r[1])
                           end == RangeTo(r[2], len(self))
                       IN  (/\ start <= end
                            /\ end <= len(self)
                            /\ splice(self, r[1], r[2], replace_with)) =>
                              /\ last'.outcome = "ok"
                              /\ splice_returns(self, r[1], r[2],
                                                replace_with) =
                                    SubSeq(old, start + 1, end)
                              /\ Content(self)' =
                                    SubSeq(old, 1, start) \o replace_with
                                       \o SubSeq(old, end + 1, Len(old))
                              /\ Allocates(self, Len(replace_with))
                              /\ ArenaKept
                              /\ \A k \in (start + 1)..end :
                                    deref(heap', items[self][k]) = old[k]
                              /\ OthersKept(self)]_vars

\* A splice has returned with its replacement in the place of an element
\* it removed: the instance points to the last slot of its arena, and an
\* earlier slot it does not point to holds another value.
SpliceReplacesWitness ==
    /\ last.op = "splice"
    /\ last.outcome = "ok"
    /\ last.self \in live
    /\ LET self == last.self
           a == arena[self]
           n == arenaLen(heap, a)
       IN  /\ len(self) >= 2
           /\ n >= 3
           /\ \E k \in 1..len(self) : items[self][k] = <<a, n>>
           /\ \E g \in 1..(n - 1) :
                 /\ \A k \in 1..len(self) : items[self][k] # <<a, g>>
                 /\ heap[a][g] # heap[a][n]

\* C16. insert(index, value) with index <= length allocates exactly one
\* value and leaves self equal to old[0..index] ++ [value] ++ old[index..]:
\* the length grows by one, the pointers before index stay, the pointers
\* from index on move one place to the right.
InsertShifts ==
    [][\A self \in live : (last'.self = self /\ last'.op = "insert") =>
          \A ix \in Indices(self), value \in Values :
             LET old == Content(self)
             IN  (ix <= len(self) /\ insert(self, ix, value)) =>
                    /\ last'.outcome = "ok"
                    /\ Content(self)' =
                          SubSeq(old, 1, ix) \o <<value>>
                             \o SubSeq(old, ix + 1, Len(old))
                    /\ len(self)' = len(self) + 1
                    /\ Allocates(self, 1)
                    /\ ArenaKept
                    /\ \A k \in 1..len(self) :
                          IF k <= ix
                          THEN items'[self][k] = items[self][k]
                          ELSE items'[self][k + 1] = items[self][k]
                    /\ OthersKept(self)]_vars

\* An insert has returned with its value before an element that was
\* there: the pointer to the last slot of the arena is not the last
\* pointer of the instance.
InsertShiftsWitness ==
    /\ last.op = "insert"
    /\ last.outcome = "ok"
    /\ last.self \in live
    /\ LET self == last.self
           a == arena[self]
       IN  /\ len(self) >= 2
           /\ \E k \in 1..(len(self) - 1) :
                 /\ items[self][k] = <<a, arenaLen(heap, a)>>
                 /\ Content(self)[k] # Content(self)[k + 1]

\* C17. remove(index) with index < length returns the value that was at
\* index and leaves self equal to old[0..index] ++ old[index+1..]: the
\* length shrinks by one; nothing is allocated and the value returned is
\* still behind the pointer that was removed.
RemoveShifts ==
    [][\A self \in live : (last'.self = self /\ last'.op = "remove") =>
          \A ix \in Positions(self) :
             LET old == Content(self)
             IN  (ix < len(self) /\ remove(self, ix)) =>
                    /\ last'.outcome = "ok"
                    /\ remove_returns(self, ix) = old[ix + 1]
                    /\ Content(self)' =
                          SubSeq(old, 1, ix) \o SubSeq(old, ix + 2, Len(old))
                    /\ len(self)' = len(self) - 1
                    /\ \A k \in 1..len(self) :
                          /\ k < ix + 1 => items'[self][k] = items[self][k]
                          /\ k > ix + 1 => items'[self][k - 1] = items[self][k]
                    /\ heap' = heap
                    /\ deref(heap', items[self][ix + 1]) = old[ix + 1]
                    /\ OthersKept(self)]_vars

\* A remove has returned and left two elements that differ, over an arena
\* with a slot before them that the instance does not point to.
RemoveShiftsWitness ==
    /\ last.op = "remove"
    /\ last.outcome = "ok"
    /\ last.self \in live
    /\ LET self == last.self
           a == arena[self]
       IN  /\ len(self) = 2
           /\ Content(self)[1] # Content(self)[2]
           /\ arenaLen(heap, a) = 3
           /\ \A k \in 1..2 : items[self][k] # <<a, 1>>

\* C18. retain(f) leaves exactly the elements f accepts, in the order they
\* had: all of them when f accepts every value, none when it accepts no
\* value; nothing is allocated and no allocated value goes away.
RetainKeeps ==
    [][\A self \in live : (last'.self = self /\ last'.op = "retain") =>
          \A f \in SUBSET Values :
             LET old == Content(self)
                 accepted(v) == v \in f
             IN  retain(self, f) =>
                    /\ last'.outcome = "ok"
                    /\ Content(self)' = SelectSeq(old, accepted)
                    /\ f = Values => Content(self)' = old
                    /\ f = {} => Content(self)' = <<>>
                    /\ heap' = heap
                    /\ OthersKept(self)]_vars

\* A retain has returned and left one element of an instance whose arena
\* holds a value the instance does not point to, other than that element.
RetainKeepsWitness ==
    /\ last.op = "retain"
    /\ last.outcome = "ok"
    /\ last.self \in live
    /\ LET self == last.self
           a == arena[self]
       IN  /\ len(self) = 1
           /\ \E g \in 1..arenaLen(heap, a) :
                 /\ items[self][1] # <<a, g>>
                 /\ heap[a][g] # Content(self)[1]

\* C19. Round trip: the instance from(vec) returns reads back vec, in
\* order, through to_vec, as_slice, iteration and indexing 0..length, and
\* its length is the length of vec; so for the empty vec.
FromRoundTrip ==
    [][last'.op = "from" =>
          \A vec \in Iters :
             from(vec) =>
                /\ Cardinality(live' \ live) = 1
                /\ \A n \in live' \ live :
                      /\ len(n)' = Len(vec)
                      /\ Content(n)' = vec
                      /\ as_slice(n)' = vec
                      /\ iter_items(n)' = vec
                      /\ \A i \in 0..(Len(vec) - 1) :
                            /\ index_returns(n, i)' = vec[i + 1]
                            /\ get_returns(n, i)' = Some(vec[i + 1])
                      /\ vec = <<>> => len(n)' = 0 /\ Content(n)' = <<>>]_vars

\* from has returned an instance that reads back two values that differ,
\* next to an instance that was there before.
FromRoundTripWitness ==
    /\ last.op = "from"
    /\ last.self \in live
    /\ last.self >= 2
    /\ len(last.self) = 2
    /\ Content(last.self)[1] # Content(last.self)[2]
    /\ iter_items(last.self) = Content(last.self)

\* C20. get returns for every index and every instance: Some(the element
\* at position i) when i < length, None when i >= length; no call of get
\* ends in a panic.
GetTotal ==
    /\ last.op = "get" => last.outcome = "ok"
    /\ \A self \in live : \A i \in Indices(self) :
          get_returns(self, i) =
             IF i < len(self) THEN Some(Content(self)[i + 1]) ELSE None

\* A get has returned on an instance with two elements that differ: get
\* answers each of them at its index and None at the length.
GetTotalWitness ==
    /\ last.op = "get"
    /\ last.self \in live
    /\ len(last.self) = 2
    /\ get_returns(last.self, 0) # get_returns(last.self, 1)
    /\ get_returns(last.self, 1) # None
    /\ get_returns(last.self, 2) = None

\* C21: iterating an instance yields exactly its current elements in
\* positional order and ends; from every position 0..length the position
\* stays within 0..length, size_hint is (length - position) as lower and
\* upper bound, a next() that yields an item yields the one at the
\* position and advances by one, and at position = length next() yields
\* None and does not advance.
IteratorContract ==
    \A self \in live :
       /\ iter_items(self) = Content(self)
       /\ \A position \in 0..len(self) :
             /\ next_position(self, position) \in 0..len(self)
             /\ size_hint(self, position)
                   = <<len(self) - position, Some(len(self) - position)>>
             /\ next_returns(self, position) # None =>
                   /\ next_returns(self, position)
                         = Some(Content(self)[position + 1])
                   /\ next_position(self, position) = position + 1
             /\ position = len(self) =>
                   /\ next_returns(self, position) = None
                   /\ next_position(self, position) = position

IteratorContractWitness ==
    /\ last.op = "read"
    /\ last.self \in live
    /\ len(last.self) >= 2
    /\ Content(last.self)[1] # Content(last.self)[2]
    /\ size_hint(last.self, 1)[1] = len(last.self) - 1

\* C22: two threads mutating two instances that share an arena (and at
\* first a Structure), under every interleaving: the locations the
\* allocations returned are all distinct, every step adds to an arena's
\* count exactly the allocations made in it (none is lost), and a thread
\* between calls finds in its instance the content its own calls give a
\* plain list.
ConcurrentMutation ==
    [][/\ \A t, u \in Thread :
             t # u => thread'[t].got \cap thread'[u].got = {}
       /\ \A t \in Thread :
             /\ Cardinality(thread'[t].got) = thread'[t].allocs
             /\ thread'[t].pc \in {"idle", "panicked"} =>
                   to_vec(heap', items'[t]) = thread'[t].alone
       /\ \A a \in ConcArena :
             ((\E i \in live : arena[i] = a) /\ (\E i \in live : arena'[i] = a))
                => Len(heap'[a]) - Len(heap[a])
                      = Cardinality({t \in Thread :
                                        /\ thread[t].on = a
                                        /\ thread'[t].allocs
                                              = thread[t].allocs + 1})
      ]_vars

ConcurrentMutationWitness ==
    \E t, u \in Thread :
       /\ t # u
       /\ Idle(t) /\ Idle(u)
       /\ arena[t] = 1 /\ arena[u] = 1
       /\ \E p \in thread[t].got, q \in thread[t].got, r \in thread[u].got :
             p[1] = 1 /\ q[1] = 1 /\ r[1] = 1 /\ p[2] < r[2] /\ r[2] < q[2]
       /\ Content(t) # Content(u)

\* C23: no deadlock.  A thread about to lock a Mutex holds none, a thread
\* between calls holds none, no thread holds two, and every call a thread
\* has started returns.
NoDeadlock ==
    /\ [](\A t \in Thread :
             /\ thread[t].pc \in {"idle", "panicked", "lock", "branch", "store"} =>
                   \A a \in ConcArena : mutex[a] # t
             /\ Cardinality({a \in ConcArena : mutex[a] = t}) <= 1)
    /\ \A t \in Thread : (thread[t].pc \notin {"idle", "panicked"})
                           ~> (thread[t].pc \in {"idle", "panicked"})

NoDeadlockWitness ==
    \E t, u \in Thread :
       /\ thread[t].pc = "lock"
       /\ mutex[thread[t].on] = u
       /\ u # t
       /\ thread[u].pc = "write"

\* C24: the arena is append-only.  Across push, set, insert, splice, pop,
\* remove, retain, truncate, clear and clone, however the call ends, no
\* arena's count decreases, every value allocated before is where it was
\* with the value it had, and the count grows by exactly the allocations
\* the call made: one for push, for insert and for a set within bounds, the
\* replacements appended in order for splice, none for the others.
ArenaAppendOnly ==
    [][\A self \in live :
          (/\ last'.self = self
           /\ last'.op \in {"push", "set", "insert", "splice", "pop",
                            "remove", "retain", "truncate", "clear",
                            "clone"}) =>
             /\ ArenaKept
             /\ \A a \in ArenaId : arenaLen(heap', a) >= arenaLen(heap, a)
             /\ last'.op \in {"push", "insert"} => Allocates(self, 1)
             /\ last'.op = "set" =>
                   Allocates(self, IF last'.outcome = "ok" THEN 1 ELSE 0)
             /\ last'.op \in {"pop", "remove", "retain", "truncate",
                              "clear", "clone"} => Allocates(self, 0)
             /\ last'.op = "splice" =>
                   \E replace_with \in Iters :
                      /\ heap' = allocAll(heap, arena[self], replace_with)
                      /\ Allocates(self, Len(replace_with))]_vars

\* A pop has left behind, in the last slot of the arena, a value the
\* instance no longer points to, below a count that still includes it.
ArenaAppendOnlyWitness ==
    /\ last.op = "pop"
    /\ last.self \in live
    /\ arenaLen(heap, arena[last.self]) >= 2
    /\ \A j \in live : \A k \in 1..Len(items[j]) :
          items[j][k] # <<arena[last.self],
                          arenaLen(heap, arena[last.self])>>

ReadsChangeNothing ==
    [][last'.op \in {"get", "read", "index"} =>
          /\ live' = live
          /\ heap' = heap
          /\ structure' = structure
          /\ \A i \in live :
                /\ items'[i] = items[i]
                /\ arena'[i] = arena[i]
                /\ Content(i)' = Content(i)
                /\ is_structure_shared(i)' = is_structure_shared(i)
                /\ is_storage_shared(i)' = is_storage_shared(i)
                /\ iter_items(i)' = iter_items(i)
                /\ as_slice(i)' = as_slice(i)]_vars

\* A read has returned on a non-empty instance that shares its Structure
\* with a clone, and a value the instance no longer points to is still in
\* its arena.
ReadsChangeNothingWitness ==
    /\ last.op = "read"
    /\ last.self \in live
    /\ is_structure_shared(last.self)
    /\ len(last.self) >= 1
    /\ arenaLen(heap, arena[last.self]) > len(last.self)

\* C27: clone() copies no value.  It returns, allocates nothing in any
\* arena, leaves the source (and every other instance) with the pointer
\* list, arena and content it had, and the clone holds the very pointers of
\* the source, so it reads the same length and the same elements.
CloneCopiesNothing ==
    [][\A self \in live : (last'.self = self /\ last'.op = "clone") =>
          /\ last'.outcome = "ok"
          /\ heap' = heap
          /\ \A j \in live :
                /\ j \in live'
                /\ items'[j] = items[j]
                /\ arena'[j] = arena[j]
                /\ Content(j)' = Content(j)
          /\ Cardinality(live' \ live) = 1
          /\ \A n \in live' \ live :
                /\ items'[n] = items[self]
                /\ arena'[n] = arena[self]
                /\ len(n)' = len(self)
                /\ Content(n)' = Content(self)
                /\ \A k \in 0..len(self) :
                      get_returns(n, k)' = get_returns(self, k)]_vars

\* A clone of an instance with two different elements has been taken, and
\* the arena holds exactly the values it needs for one of them.
CloneCopiesNothingWitness ==
    /\ last.op = "clone"
    /\ last.self \in live
    /\ len(last.self) = 2
    /\ Content(last.self)[1] # Content(last.self)[2]
    /\ arenaLen(heap, arena[last.self]) = 2
    /\ \E n \in live \ {last.self} :
          items[n] = items[last.self] /\ arena[n] = arena[last.self]

\* The pointers a pointer list holds.
Pointers(its) == {its[k] : k \in 1..Len(its)}

\* C28: pop, remove, swap, reverse, truncate, clear, retain and split_off
\* never allocate.  However such a call ends, every arena holds the values
\* and the count it held, and every pointer the instance (or the instance
\* split_off returns) holds afterwards is one the instance held before.
NeverAllocate ==
    [][\A self \in live :
          (/\ last'.self = self
           /\ last'.op \in {"pop", "remove", "swap", "reverse", "truncate",
                            "clear", "retain", "split_off"}) =>
             /\ heap' = heap
             /\ Allocates(self, 0)
             /\ Pointers(items'[self]) \subseteq Pointers(items[self])
             /\ \A n \in live' \ live :
                   /\ Pointers(items'[n]) \subseteq Pointers(items[self])
                   /\ arena'[n] = arena[self]]_vars

\* A reverse has returned on an instance of two different elements whose
\* arena holds two values and no more.
NeverAllocateWitness ==
    /\ last.op = "reverse"
    /\ last.self \in live
    /\ len(last.self) = 2
    /\ arenaLen(heap, arena[last.self]) = 2
    /\ items[last.self][1][2] > items[last.self][2][2]

\* C29: handle validity.  In every reachable state every pointer of every
\* live instance refers to a slot allocated in the arena that same instance
\* references, so reading through it is defined; this holds for the
\* instances a compacting clone_with_max_capacity and split_off return as
\* for all others.
HandleValidity ==
    \A i \in live :
       /\ arena[i] \in ArenaId
       /\ \A k \in 1..Len(items[i]) :
             /\ items[i][k][1] = arena[i]
             /\ items[i][k][2] \in 1..arenaLen(heap, arena[i])
             /\ get_returns(i, k - 1) = Some(heap[arena[i]][items[i][k][2]])

\* A compacting clone_with_max_capacity has returned a non-empty instance
\* in an arena of its own that holds its elements and nothing else, while
\* the source still points into the arena it had.
HandleValidityWitness ==
    /\ last.op = "clone_with_max_capacity"
    /\ last.self \in live
    /\ arenaLen(heap, arena[last.self]) >= len(last.self)
    /\ \E n \in live :
          /\ arena[n] # arena[last.self]
          /\ len(n) >= 1
          /\ Content(n) = Content(last.self)
          /\ arenaLen(heap, arena[n]) = len(n)

\* C30: an instance refines a plain list.  Whatever the instance reads
\* before an in-range push, pop, insert, remove, set, swap, reverse,
\* truncate, clear, extend, retain, splice or split_off, it reads afterwards
\* what the same operation makes of that plain list (and split_off returns
\* the list's tail); a step taken on another instance, a clone taken or a
\* clone mutated, changes nothing of what the instance reads.  So along any
\* sequence of calls the content equals the plain list after every step.
ListRefinement ==
    [][\A self \in live \cup live' : last'.self = self =>
          /\ last'.op # "drop" =>
                \A j \in live \ {self} : j \in live' /\ Content(j)' = Content(j)
          /\ self \in live =>
             LET old == Content(self)
                 now == to_vec(heap', items'[self])
                 n == Len(old)
             IN
             /\ last'.op = "push" =>
                   \A value \in Values :
                      push(self, value) => now = Append(old, value)
             /\ last'.op = "pop" =>
                   now = IF n = 0 THEN <<>> ELSE SubSeq(old, 1, n - 1)
             /\ last'.op = "insert" =>
                   \A ix \in Indices(self), value \in Values :
                      (ix <= n /\ insert(self, ix, value)) =>
                         now = SubSeq(old, 1, ix) \o <<value>>
                                  \o SubSeq(old, ix + 1, n)
             /\ last'.op = "remove" =>
                   \A ix \in Positions(self) :
                      (ix < n /\ remove(self, ix)) =>
                         now = SubSeq(old, 1, ix) \o SubSeq(old, ix + 2, n)
             /\ last'.op = "set" =>
                   \A ix \in Positions(self), value \in Values :
                      (ix < n /\ set(self, ix, value)) =>
                         now = [old EXCEPT ![ix + 1] = value]
             /\ last'.op = "swap" =>
                   \A a \in Positions(self), b \in Positions(self) :
                      (a < n /\ b < n /\ swap(self, a, b)) =>
                         now = [old EXCEPT ![a + 1] = old[b + 1],
                                           ![b + 1] = old[a + 1]]
             /\ last'.op = "reverse" =>
                   now = [k \in 1..n |-> old[n + 1 - k]]
             /\ last'.op = "truncate" =>
                   \A m \in Indices(self) :
                      truncate(self, m) =>
                         now = IF m >= n THEN old ELSE SubSeq(old, 1, m)
             /\ last'.op = "clear" => now = <<>>
             /\ last'.op = "extend" =>
                   \A vs \in Iters :
                      extend(self, vs) => now = old \o vs
             /\ last'.op = "retain" =>
                   \A f \in SUBSET Values :
                      retain(self, f) =>
                         LET kept(v) == v \in f IN now = SelectSeq(old, kept)
             /\ last'.op = "splice" =>
                   LET replace_with ==
                          SubSeq(heap'[arena[self]],
                                 arenaLen(heap, arena[self]) + 1,
                                 arenaLen(heap', arena[self]))
                   IN  /\ \E r \in Ranges(self) :
                             splice(self, r[1], r[2], replace_with)
                       /\ \A r \in Ranges(self) :
                             LET start == RangeFrom(r[1])
                                 end == RangeTo(r[2], n)
                             IN  (/\ start <= end
                                  /\ end <= n
                                  /\ splice(self, r[1], r[2], replace_with))
                                    => now = SubSeq(old, 1, start)
                                                \o replace_with
                                                \o SubSeq(old, end + 1, n)
             /\ last'.op = "split_off" =>
                   \A at \in Indices(self) :
                      (at <= n /\ split_off(self, at)) =>
                         /\ now = SubSeq(old, 1, at)
                         /\ \A t \in live' \ live :
                               to_vec(heap', items'[t])
                                  = SubSeq(old, at + 1, n)]_vars

\* An extend has returned on an instance that reads two elements or more,
\* while a clone over the same arena has been mutated and reads something
\* else.
ListRefinementWitness ==
    /\ last.op = "extend"
    /\ last.self \in live
    /\ len(last.self) >= 2
    /\ \E j \in live \ {last.self} :
          /\ arena[j] = arena[last.self]
          /\ len(j) >= 1
          /\ Content(j) # Content(last.self)
          /\ \E k \in 1..len(j) : items[j][k] \in Pointers(items[last.self])

\* C31: pop() on a non-empty instance returns its last element, shortens it
\* by one and leaves the other positions as they were; pop() on an empty
\* instance returns None and leaves the length at 0; and popping an
\* instance as many times as it has elements returns them in reverse order
\* and leaves it empty.
PopReturnsLast ==
    [][\A self \in live : (last'.self = self /\ last'.op = "pop") =>
          LET old == Content(self)
              n == Len(old)
          IN  /\ last'.outcome = "ok"
              /\ n >= 1 =>
                    /\ pop_returns(self) = Some(old[n])
                    /\ len(self)' = n - 1
                    /\ \A k \in 1..(n - 1) :
                          /\ Content(self)'[k] = old[k]
                          /\ items'[self][k] = items[self][k]
              /\ n = 0 =>
                    /\ pop_returns(self) = None
                    /\ len(self)' = 0
              /\ pop_all(heap, items[self]) = [k \in 1..n |-> old[n + 1 - k]]
              /\ pop_times(items[self], n) = <<>>
              /\ items'[self] = pop_times(items[self], 1)
              /\ pop_returns(self) # None =>
                    pop_all(heap, items[self])
                       = pop_returns(self) \o pop_all(heap', items'[self])]_vars

\* A pop has returned and left the instance non-empty, and a slot of its
\* arena above every pointer it keeps holds a value unlike its first
\* element.
PopReturnsLastWitness ==
    /\ last.op = "pop"
    /\ last.self \in live
    /\ len(last.self) >= 1
    /\ \E k \in 1..arenaLen(heap, arena[last.self]) :
          /\ \A j \in 1..len(last.self) : items[last.self][j][2] < k
          /\ heap[arena[last.self]][k] # Content(last.self)[1]

\* C32: truncate(n) keeps exactly the first min(n, length) elements, in
\* order.  It always returns; with n >= length the length and the content
\* are as before; with n = 0 the instance is empty; and a second
\* truncate(n) would leave what the first one left.
TruncateKeepsPrefix ==
    [][\A self \in live : (last'.self = self /\ last'.op = "truncate") =>
          \A m \in Indices(self) : truncate(self, m) =>
             LET old == Content(self)
                 n == Len(old)
             IN  /\ last'.outcome = "ok"
                 /\ len(self)' = Min({m, n})
                 /\ Content(self)' = SubSeq(old, 1, Min({m, n}))
                 /\ items'[self] = SubSeq(items[self], 1, Min({m, n}))
                 /\ m >= n => (len(self)' = n /\ Content(self)' = old)
                 /\ m = 0 => Content(self)' = <<>>
                 /\ VecTruncate(items'[self], m) = items'[self]
                 /\ to_vec(heap', VecTruncate(items'[self], m))
                       = Content(self)']_vars

\* A truncate has left an instance with the first element or elements of
\* the longer list a clone over the same arena still holds.
TruncateKeepsPrefixWitness ==
    /\ last.op = "truncate"
    /\ last.self \in live
    /\ len(last.self) >= 1
    /\ \E j \in live \ {last.self} :
          /\ arena[j] = arena[last.self]
          /\ len(j) > len(last.self)
          /\ SubSeq(items[j], 1, len(last.self)) = items[last.self]
====
